---- MODULE Spec2Model ----
(***************************************************************************)
(* The adaptive quiz engine of KeyQuest (src/adaptivequiz.cpp): a tabular  *)
(* Q-learning question selector with per-question answer streaks that      *)
(* promote and demote the learner's three skill levels.                    *)
(*                                                                         *)
(* C++ float values are held as fixed-point integers in units of 1/FScale, *)
(* every product rounded to the nearest unit (as a float product rounds to *)
(* the nearest float).  The score only ever moves by +10 and -5, so it is  *)
(* an exact integer number of points.                                      *)
(*                                                                         *)
(* The second part is the quiz screen (src/quizwidget.cpp) that drives the *)
(* engine from piano key events and its chord timer, with the persistence  *)
(* service it loads from and saves to.  A handler that calls the engine    *)
(* twice is two steps, and the widget's "at" field says where it stands.   *)
(***************************************************************************)
EXTENDS Integers, Sequences, FiniteSets, TLC

(* ------------------------------ bounds --------------------------------- *)
\* evaluateResponse calls per engine instance, answers spread over two questions
MaxCalls == 4
\* evaluateResponse calls per engine instance when every initial skill state is tried
MaxWideCalls == 1
\* evaluateResponse calls per engine instance, every answer to the same question
MaxLongCalls == 8

(* --------------------------- representation ---------------------------- *)
\* one float unit: 1.0 is FScale
FScale == 10^4

Levels == 0..2
States == [notes : Levels, chords : Levels, scales : Levels]
St(n, c, s) == [notes |-> n, chords |-> c, scales |-> s]

EmptyMap == [k \in {} |-> 0]
\* std::map::find / at with a default
Get(m, k, d) == IF k \in DOMAIN m THEN m[k] ELSE d
\* std::map::operator[] followed by an assignment
Put(m, k, v) == [x \in (DOMAIN m) \cup {k} |-> IF x = k THEN v ELSE m[x]]

Min(S) == CHOOSE x \in S : \A y \in S : x <= y
\* iteration order of a std::map<int, ...>: ascending keys
RECURSIVE SortedSeq(_)
SortedSeq(S) == IF S = {} THEN << >> ELSE << Min(S) >> \o SortedSeq(S \ {Min(S)})
Range(q) == {q[i] : i \in 1..Len(q)}
SelectIn(q, S) == SelectSeq(q, LAMBDA x : x \in S)
SelectNotIn(q, S) == SelectSeq(q, LAMBDA x : x \notin S)

RoundDiv(a, b) == IF a >= 0 THEN (2 * a + b) \div (2 * b) ELSE 0 - ((2 * (0 - a) + b) \div (2 * b))

(* ------------------------------ Question ------------------------------- *)
Q(tid, diff, desc) == [topicID |-> tid, difficulty |-> diff, description |-> desc]
\* Question() value-initialised by std::map::operator[] and by getQuestion
DefaultQuestion == Q(0, 0, "")

VARIABLES
    questionBankByID,           \* std::map<int, Question>
    q_table,                    \* std::map<State, std::map<int, float>>
    state,                      \* State
    history,                    \* vector of (State, id, description, correct)
    askedQuestionsThisSession,  \* unordered_set<int>
    correctCounts,              \* std::map<int, int>
    incorrectCounts,            \* std::map<int, int>
    score,                      \* float, whole points
    correctAnswers,             \* int
    totalQuestions,             \* int
    pc,                         \* "ready", or "crashed" after a fatal outcome of undefined behaviour
    ret,                        \* the last call of the caller: its name, arguments and result
    trace,                      \* per evaluateResponse call: what the call read and wrote
    ids,                        \* the question ids the caller passes to the engine
    budget,                     \* evaluateResponse calls the caller still makes
    ctor,                       \* the arguments the constructor was called with
    widget,                     \* the QuizWidget: its members and the place its handler is at
    quizOverHandled,            \* static bool QuizWidget::quizOverHandled
    quizOverHandledLocal,       \* the static bool declared inside handleQuizOver
    m_data,                     \* LoadDataManager: newUser, userState and the Q-table
    resources,                  \* the bank of :/resources/questionBank.json
    log                         \* per session: its number, the saves and the quizFinished signals

vars == << questionBankByID, q_table, state, history, askedQuestionsThisSession,
           correctCounts, incorrectCounts, score, correctAnswers, totalQuestions,
           pc, ret, trace, ids, budget, ctor,
           widget, quizOverHandled, quizOverHandledLocal, m_data, resources, log >>

engine == << questionBankByID, q_table, state, history, askedQuestionsThisSession,
             correctCounts, incorrectCounts, score, correctAnswers, totalQuestions >>

NoCall == [op |-> "none"]

\* the quiz screen and what it persists
driver == << widget, quizOverHandled, quizOverHandledLocal, m_data, resources, log >>

\* QuizWidget's members after its constructor, before startQuiz
NoWidget ==
    [quiz |-> FALSE, currentQuestionId |-> 0, currentChordNotes |-> << >>,
     currentlyPressedKeys |-> {}, isProcessingSubmission |-> FALSE,
     questionsAnswered |-> 0, chordTimer |-> FALSE, at |-> "none"]

\* an engine used without the quiz screen
NoDriver ==
    /\ widget = NoWidget
    /\ quizOverHandled = FALSE
    /\ quizOverHandledLocal = FALSE
    /\ m_data = [newUser |-> TRUE, userState |-> [notes |-> 0, chords |-> 0, scales |-> 0],
                 table |-> << >>]
    /\ resources = << >>
    /\ log = [session |-> 0, saves |-> 0, finished |-> 0]
(* ------------------------- AdaptiveQuiz constants ---------------------- *)
\* lr(0.1f) and df(0.9f): x * lr is x / 10, x * df is 9 x / 10
lrDen == 10
dfNum == 9
correctThreshold == 4
incorrectThreshold == 4

MulLr(x) == RoundDiv(x, lrDen)
MulDf(x) == RoundDiv(dfNum * x, lrDen)

(* ------------------------------ the bank ------------------------------- *)
\* questionBankByID[id] on a non-const map: inserts a default Question when absent
BankTouch(bank, id) == IF id \in DOMAIN bank THEN bank ELSE Put(bank, id, DefaultQuestion)

(* ---------------------- getActionsForStateLevel ------------------------ *)
\* the three tests with "<" for "<="
QualifiesStrict(q, s, stretchAmount) ==
    \/ q.topicID = 101 /\ q.difficulty < s.notes + stretchAmount
    \/ q.topicID >= 102 /\ q.topicID <= 103 /\ q.difficulty < s.chords + stretchAmount
    \/ q.topicID >= 104 /\ q.difficulty < s.scales + stretchAmount

\* lines 68-70
Qualifies(q, s, stretchAmount) ==
    \/ q.topicID = 101 /\ q.difficulty <= s.notes + stretchAmount
    \/ q.topicID >= 102 /\ q.topicID <= 103 /\ q.difficulty <= s.chords + stretchAmount
    \/ q.topicID >= 104 /\ q.difficulty <= s.scales + stretchAmount

\* stretchAmount = 1 whatever the flag is
getActionsForStateLevelStretched(bank, s, allowSlightStretch) ==
    SortedSeq({qid \in DOMAIN bank : Qualifies(bank[qid], s, 1)})

\* lines 57-75: the qualifying ids in the iteration order of the bank
getActionsForStateLevel(bank, s, allowSlightStretch) ==
    LET stretchAmount == IF allowSlightStretch THEN 1 ELSE 0
    IN  SortedSeq({qid \in DOMAIN bank : Qualifies(bank[qid], s, stretchAmount)})

(* ------------------------------ getReward ------------------------------ *)
\* the improvement test on the sum of the levels instead of on each level
getRewardBySum(before, after, correct) ==
    IF correct /\ after.notes + after.chords + after.scales
                    > before.notes + before.chords + before.scales
    THEN 5 * FScale
    ELSE IF correct THEN (5 * FScale) \div 2
    ELSE 0 - ((5 * FScale) \div 2)

\* the larger reward for every change of the state and at every threshold
getRewardOnChange(before, after, correct) ==
    IF after # before THEN 5 * FScale
    ELSE IF correct THEN (5 * FScale) \div 2
    ELSE 0 - ((5 * FScale) \div 2)

\* 5.0f, 2.5f and -2.5f in float units
getReward(before, after, correct) ==
    IF correct /\ (\/ after.notes > before.notes
                   \/ after.chords > before.chords
                   \/ after.scales > before.scales)
    THEN 5 * FScale
    ELSE IF correct THEN (5 * FScale) \div 2
    ELSE 0 - ((5 * FScale) \div 2)

(* ------------------------------ maxQValue ------------------------------ *)
RECURSIVE MaxOver(_, _, _)
MaxOver(row, keys, maxQ) ==
    IF keys = {} THEN maxQ
    ELSE LET k == Min(keys)
         IN  MaxOver(row, keys \ {k}, IF row[k] > maxQ THEN row[k] ELSE maxQ)

\* the scan started below every value instead of at 0.0f
maxQValueNoFloor(qt, s) ==
    IF s \notin DOMAIN qt THEN 0
    ELSE MaxOver(qt[s], DOMAIN qt[s], 0 - 10^9)

\* lines 204-209
maxQValue(qt, s) ==
    IF s \notin DOMAIN qt THEN 0
    ELSE MaxOver(qt[s], DOMAIN qt[s], 0)

\* line 206: q_table[s] is reached only when find(s) succeeded, so it inserts nothing
maxQValueTable(qt, s) ==
    IF s \notin DOMAIN qt THEN qt
    ELSE Put(qt, s, qt[s])

(* ------------------------------ updateState ---------------------------- *)
\* points = difficulty + 2: one point too many for every difficulty
PointsOneMore(difficulty) == difficulty + 2

\* one point whatever the difficulty
PointsFlat(difficulty) == 1

\* twice the weight of each difficulty
PointsDoubled(difficulty) ==
    IF difficulty = 2 THEN 6 ELSE IF difficulty = 1 THEN 4 ELSE 2

\* lines 225-227
Points(difficulty) ==
    IF difficulty = 2 THEN 3 ELSE IF difficulty = 1 THEN 2 ELSE 1

\* the increments without their "< 2" guards
PromoteUnclamped(s, topicID) ==
    IF topicID = 101 THEN [s EXCEPT !.notes = @ + 1]
    ELSE IF topicID >= 102 /\ topicID <= 103 THEN [s EXCEPT !.chords = @ + 1]
    ELSE IF topicID >= 104 THEN [s EXCEPT !.scales = @ + 1]
    ELSE s

\* the chords test starting at 101, so that it overlaps the notes test
PromoteLooseBuckets(s, topicID) ==
    LET s1 == IF topicID = 101 /\ s.notes < 2
              THEN [s EXCEPT !.notes = @ + 1] ELSE s
        s2 == IF topicID >= 101 /\ topicID <= 103 /\ s1.chords < 2
              THEN [s1 EXCEPT !.chords = @ + 1] ELSE s1
    IN  IF topicID >= 104 /\ s2.scales < 2
        THEN [s2 EXCEPT !.scales = @ + 1] ELSE s2

\* lines 237-239: the three guarded increments
Promote(s, topicID) ==
    LET s1 == IF topicID = 101 /\ s.notes < 2
              THEN [s EXCEPT !.notes = @ + 1] ELSE s
        s2 == IF topicID >= 102 /\ topicID <= 103 /\ s1.chords < 2
              THEN [s1 EXCEPT !.chords = @ + 1] ELSE s1
    IN  IF topicID >= 104 /\ s2.scales < 2
        THEN [s2 EXCEPT !.scales = @ + 1] ELSE s2

\* the decrements without their "> 0" guards
DemoteUnclamped(s, topicID) ==
    IF topicID = 101 THEN [s EXCEPT !.notes = @ - 1]
    ELSE IF topicID >= 102 /\ topicID <= 103 THEN [s EXCEPT !.chords = @ - 1]
    ELSE IF topicID >= 104 THEN [s EXCEPT !.scales = @ - 1]
    ELSE s

\* lines 248-250: the three guarded decrements
Demote(s, topicID) ==
    LET s1 == IF topicID = 101 /\ s.notes > 0
              THEN [s EXCEPT !.notes = @ - 1] ELSE s
        s2 == IF topicID >= 102 /\ topicID <= 103 /\ s1.chords > 0
              THEN [s1 EXCEPT !.chords = @ - 1] ELSE s1
    IN  IF topicID >= 104 /\ s2.scales > 0
        THEN [s2 EXCEPT !.scales = @ - 1] ELSE s2

\* the state, the two counter maps and the bank after updateState(questionID, correct, s)
\* an update that leaves the opposite streak of the answered question alone
updateStateKeepOpposite(bank, cc, ic, questionID, correct, s) ==
    LET bank1      == BankTouch(bank, questionID)
        difficulty == bank1[questionID].difficulty
        topicID    == bank1[questionID].topicID
        points     == Points(difficulty)
        cc0        == Put(cc, questionID, Get(cc, questionID, 0))
        ic0        == Put(ic, questionID, Get(ic, questionID, 0))
    IN  IF correct
        THEN LET c1 == Get(cc, questionID, 0) + points
             IN  IF c1 >= correctThreshold
                 THEN [state |-> Promote(s, topicID), bank |-> bank1,
                       cc |-> Put(cc, questionID, 0), ic |-> ic0]
                 ELSE [state |-> s, bank |-> bank1,
                       cc |-> Put(cc, questionID, c1), ic |-> ic0]
        ELSE LET i1 == Get(ic, questionID, 0) + 1
             IN  IF i1 >= incorrectThreshold
                 THEN [state |-> Demote(s, topicID), bank |-> bank1,
                       cc |-> cc0, ic |-> Put(ic, questionID, 0)]
                 ELSE [state |-> s, bank |-> bank1,
                       cc |-> cc0, ic |-> Put(ic, questionID, i1)]

\* lines 220-254
updateState(bank, cc, ic, questionID, correct, s) ==
    LET bank1      == BankTouch(bank, questionID)
        difficulty == bank1[questionID].difficulty
        topicID    == bank1[questionID].topicID
        points     == Points(difficulty)
    IN  IF correct
        THEN LET c1 == Get(cc, questionID, 0) + points
             IN  IF c1 >= correctThreshold
                 THEN [state |-> Promote(s, topicID), bank |-> bank1,
                       cc |-> Put(cc, questionID, 0), ic |-> Put(ic, questionID, 0)]
                 ELSE [state |-> s, bank |-> bank1,
                       cc |-> Put(cc, questionID, c1), ic |-> Put(ic, questionID, 0)]
        ELSE LET i1 == Get(ic, questionID, 0) + 1
             IN  IF i1 >= incorrectThreshold
                 THEN [state |-> Demote(s, topicID), bank |-> bank1,
                       cc |-> Put(cc, questionID, 0), ic |-> Put(ic, questionID, 0)]
                 ELSE [state |-> s, bank |-> bank1,
                       cc |-> Put(cc, questionID, 0), ic |-> Put(ic, questionID, i1)]

(* ------------------------------ updateQTable --------------------------- *)
\* the temporal-difference step without the learning rate
QStepNoLr(q, reward, nextMax) == q + (reward + MulDf(nextMax) - q)

\* the step without the discount factor
QStepNoDiscount(q, reward, nextMax) == q + MulLr(reward + nextMax - q)

\* q + lr * (reward + df * nextMax - q)
QStep(q, reward, nextMax) == q + MulLr(reward + MulDf(nextMax) - q)

\* maxQValue reading q_table[nextState]: the row of the next state is created
updateQTableTouchNext(qt, currentState, questionID, reward, nextState) ==
    LET row0    == Get(qt, currentState, EmptyMap)
        q       == Get(row0, questionID, 0)
        qt1     == Put(qt, currentState, Put(row0, questionID, q))
        qt2     == Put(qt1, nextState, Get(qt1, nextState, EmptyMap))
        nextMax == maxQValue(qt2, nextState)
    IN  Put(qt2, currentState, Put(qt2[currentState], questionID, QStep(q, reward, nextMax)))

\* the maximum taken over the row of the state that was answered in
updateQTableMaxOfCurrent(qt, currentState, questionID, reward, nextState) ==
    LET row0    == Get(qt, currentState, EmptyMap)
        q       == Get(row0, questionID, 0)
        qt1     == Put(qt, currentState, Put(row0, questionID, q))
        nextMax == maxQValue(qt1, currentState)
    IN  Put(qt1, currentState, Put(qt1[currentState], questionID, QStep(q, reward, nextMax)))

\* lines 264-268
updateQTable(qt, currentState, questionID, reward, nextState) ==
    LET row0    == Get(qt, currentState, EmptyMap)
        q       == Get(row0, questionID, 0)
        qt1     == Put(qt, currentState, Put(row0, questionID, q))
        nextMax == maxQValue(qt1, nextState)
        qt2     == maxQValueTable(qt1, nextState)
    IN  Put(qt2, currentState, Put(qt2[currentState], questionID, QStep(q, reward, nextMax)))

(* ------------------------- score and accuracy -------------------------- *)
\* the score without its floor at 0
ScoreAfterNoFloor(sc, correct) == IF correct THEN sc + 10 ELSE sc - 5

\* lines 358-361
ScoreAfter(sc, correct) ==
    IF correct THEN sc + 10
    ELSE IF sc - 5 < 0 THEN 0 ELSE sc - 5

\* totalQuestions counted inside the "if (correct)" branch
TallyCorrectOnly(total, corr, sc, correct) ==
    [totalQuestions |-> IF correct THEN total + 1 ELSE total,
     correctAnswers |-> IF correct THEN corr + 1 ELSE corr,
     score          |-> ScoreAfter(sc, correct)]

\* lines 355-362: the three session counters after one answer
Tally(total, corr, sc, correct) ==
    [totalQuestions |-> total + 1,
     correctAnswers |-> IF correct THEN corr + 1 ELSE corr,
     score          |-> ScoreAfter(sc, correct)]

\* the quotient taken in int, without the static_cast<float>
getAccuracyIntDiv(correct, total) ==
    IF total = 0 THEN 0 ELSE (correct \div total) * 100 * FScale

\* static_cast<float>(correctAnswers) / totalQuestions * 100.0f, in float units
getAccuracy(correct, total) ==
    IF total = 0 THEN 0 ELSE RoundDiv(correct * FScale, total) * 100

(* ------------------------------ getNextAction -------------------------- *)
\* rand() / RAND_MAX in tenths, and the values of rand() taken modulo a size
RandTenths == 0..10
RandInts == 0..5

\* the average rounded to the nearest level instead of truncated
EpsilonRounded(s) ==
    LET avgLevel == (s.notes + s.chords + s.scales + 1) \div 3
    IN  IF avgLevel = 0 THEN 9 ELSE IF avgLevel = 1 THEN 7 ELSE 5

\* lines 85-95: the tiered exploration probability, in tenths
Epsilon(s) ==
    LET avgLevel == (s.notes + s.chords + s.scales) \div 3
    IN  IF avgLevel = 0 THEN 9 ELSE IF avgLevel = 1 THEN 7 ELSE 5

\* rbegin() instead of begin(): the highest key
FallbackLast(bank) == CHOOSE x \in DOMAIN bank : \A y \in DOMAIN bank : y <= x

\* line 115 on a non-empty bank: questionBankByID.begin()->first
Fallback(bank) == Min(DOMAIN bank)

\* lines 120-138: the three topic buckets, the group draw and the index draw
ExplorePick(bank, filtered, choice, draw) ==
    LET notesQ  == SelectSeq(filtered, LAMBDA qid : bank[qid].topicID = 101)
        chordsQ == SelectSeq(filtered, LAMBDA qid :
                       /\ bank[qid].topicID # 101
                       /\ bank[qid].topicID >= 101 /\ bank[qid].topicID <= 102)
        scalesQ == SelectSeq(filtered, LAMBDA qid : bank[qid].topicID = 104)
        group   == IF choice = 0 /\ notesQ # << >> THEN notesQ
                   ELSE IF choice = 1 /\ chordsQ # << >> THEN chordsQ
                   ELSE IF choice = 2 /\ scalesQ # << >> THEN scalesQ
                   ELSE << >>
    IN  IF group # << >> THEN group[(draw % Len(group)) + 1]
        ELSE filtered[(draw % Len(filtered)) + 1]

\* float bestValue = -1e9: below every value a Q-table of the model holds
BestSentinel == 0 - 10^9

\* lines 142-151: the scan; q_table[state][qid] creates the entries it reads
RECURSIVE ExploitScan(_, _, _, _, _)
ExploitScan(row, filtered, i, bestQID, bestValue) ==
    IF i > Len(filtered) THEN bestQID
    ELSE LET q == Get(row, filtered[i], 0)
         IN  IF q > bestValue
             THEN ExploitScan(row, filtered, i + 1, filtered[i], q)
             ELSE ExploitScan(row, filtered, i + 1, bestQID, bestValue)

\* the scan started with bestQID = -1 and bestValue = 0
ExploitBestFromZero(qt, s, filtered) ==
    ExploitScan(Get(qt, s, EmptyMap), filtered, 1, 0 - 1, 0)

\* the scan with ">=" for ">": the last of several maximal ids wins
RECURSIVE ExploitScanLast(_, _, _, _, _)
ExploitScanLast(row, filtered, i, bestQID, bestValue) ==
    IF i > Len(filtered) THEN bestQID
    ELSE LET q == Get(row, filtered[i], 0)
         IN  IF q >= bestValue
             THEN ExploitScanLast(row, filtered, i + 1, filtered[i], q)
             ELSE ExploitScanLast(row, filtered, i + 1, bestQID, bestValue)

ExploitBestLast(qt, s, filtered) ==
    ExploitScanLast(Get(qt, s, EmptyMap), filtered, 1, filtered[1], BestSentinel)

\* lines 142-151
ExploitBest(qt, s, filtered) ==
    ExploitScan(Get(qt, s, EmptyMap), filtered, 1, filtered[1], BestSentinel)

\* the row of the current state rebuilt from the pool alone
ExploitTablePoolOnly(qt, s, filtered) ==
    LET row == Get(qt, s, EmptyMap)
    IN  Put(qt, s, [qid \in Range(filtered) |-> Get(row, qid, 0)])

\* lines 143-144: the table after the scan's q_table[state][qid] reads
ExploitTable(qt, s, filtered) ==
    LET row == Get(qt, s, EmptyMap)
    IN  Put(qt, s, [qid \in (DOMAIN row) \cup Range(filtered) |-> Get(row, qid, 0)])

\* lines 101-113 : the pool after the asked filter, and whether the asked-set is reset
FilteredCandidates(candidates, asked) ==
    LET filteredCandidates == SelectNotIn(candidates, asked)
    IN  IF filteredCandidates = << >> THEN candidates ELSE filteredCandidates

\* a reset that forgets only the ids of the exhausted pool
AskedAfterFilterPoolOnly(candidates, asked) ==
    IF SelectNotIn(candidates, asked) = << >> THEN asked \ Range(candidates) ELSE asked

\* line 111: askedQuestionsThisSession.clear() when the filter left nothing
AskedAfterFilter(candidates, asked) ==
    IF SelectNotIn(candidates, asked) = << >> THEN {} ELSE asked

\* what a read through the end() iterator of an empty map may yield
Garbage == ids \cup {0}

\* the outcomes of ((float)rand() / RAND_MAX) < epsilon
ExploreOutcomes(s) == {r < Epsilon(s) : r \in RandTenths}

\* the ids the explore branch can return, over the draws of rand()
ExplorePicks(bank, filtered) ==
    {ExplorePick(bank, filtered, choice, draw) : choice \in 0..2, draw \in RandInts}

\* the call as the caller sees it; picks are the ids the explore branch can
\* return for this pool over all draws of rand()
NextCall(explore, candidates, filtered, value) ==
    [op |-> "getNextAction", explore |-> explore, candidates |-> candidates,
     pool |-> filtered, asked |-> askedQuestionsThisSession, value |-> value,
     epsilon |-> Epsilon(state),
     picks |-> IF explore /\ filtered # << >>
               THEN ExplorePicks(questionBankByID, filtered) ELSE {},
     fault |-> FALSE]

getNextAction ==
    /\ pc = "ready"
    /\ \E explore \in ExploreOutcomes(state) :
         LET candidates == getActionsForStateLevel(questionBankByID, state, explore)
             filtered   == FilteredCandidates(candidates, askedQuestionsThisSession)
         IN  /\ askedQuestionsThisSession' =
                    AskedAfterFilter(candidates, askedQuestionsThisSession)
             /\ \/ /\ filtered = << >>
                   /\ DOMAIN questionBankByID # {}
                   /\ ret' = NextCall(explore, candidates, filtered, Fallback(questionBankByID))
                   /\ UNCHANGED << q_table, pc >>
                \* begin() of an empty map is end(): dereferencing it is undefined
                \/ /\ filtered = << >>
                   /\ DOMAIN questionBankByID = {}
                   /\ \/ /\ \E g \in Garbage :
                              ret' = [NextCall(explore, candidates, filtered, g)
                                         EXCEPT !.fault = TRUE]
                         /\ pc' = pc
                      \/ /\ ret' = [op |-> "getNextAction", fault |-> TRUE]
                         /\ pc' = "crashed"
                   /\ UNCHANGED q_table
                \/ /\ filtered # << >>
                   /\ explore
                   /\ \E value \in ExplorePicks(questionBankByID, filtered) :
                        ret' = NextCall(explore, candidates, filtered, value)
                   /\ UNCHANGED << q_table, pc >>
                \/ /\ filtered # << >>
                   /\ ~explore
                   /\ ret' = NextCall(explore, candidates, filtered,
                                 ExploitBest(q_table, state, filtered))
                   /\ q_table' = ExploitTable(q_table, state, filtered)
                   /\ pc' = pc
    /\ UNCHANGED << questionBankByID, state, history, correctCounts, incorrectCounts,
                    score, correctAnswers, totalQuestions, trace, ids, ctor, budget >>

(* ------------------------------ evaluateResponse ----------------------- *)
\* the entry put at the front of the history
emplace_front(hist, s, questionID, description, correct) ==
    << [state |-> s, questionID |-> questionID,
        description |-> description, correct |-> correct] >> \o hist

\* line 352: history.emplace_back(state, questionID, description, correct)
emplace_back(hist, s, questionID, description, correct) ==
    Append(hist, [state |-> s, questionID |-> questionID,
                  description |-> description, correct |-> correct])

\* the signal emitted in the branch of a correct answer and once more after it
highlightKeysInBranch(isCorrect, now) ==
    IF isCorrect
    THEN << [isCorrect |-> isCorrect, seen |-> now], [isCorrect |-> isCorrect, seen |-> now] >>
    ELSE << [isCorrect |-> isCorrect, seen |-> now] >>

\* line 365: emit highlightKeys(correct); the connected slots run inside the
\* emit and can read the engine as it is now
highlightKeys(isCorrect, now) == << [isCorrect |-> isCorrect, seen |-> now] >>

\* lines 350-379 as one step; the slot connected to highlightKeys
\* (PianoWidget::highlightAttempt) changes no engine state
evaluateResponse(questionID, correct) ==
    /\ pc = "ready"
    /\ budget > 0
    /\ LET bank1       == BankTouch(questionBankByID, questionID)
           stateBefore == state
           upd         == updateState(bank1, correctCounts, incorrectCounts,
                                      questionID, correct, state)
           reward      == getReward(stateBefore, upd.state, correct)
           tally       == Tally(totalQuestions, correctAnswers, score, correct)
       IN  /\ history' = emplace_back(history, state, questionID,
                                      bank1[questionID].description, correct)
           /\ totalQuestions' = tally.totalQuestions
           /\ correctAnswers' = tally.correctAnswers
           /\ score' = tally.score
           /\ state' = upd.state
           /\ questionBankByID' = upd.bank
           /\ correctCounts' = upd.cc
           /\ incorrectCounts' = upd.ic
           /\ q_table' = updateQTable(q_table, stateBefore, questionID, reward, upd.state)
           /\ askedQuestionsThisSession' = askedQuestionsThisSession \cup {questionID}
           /\ trace' = Append(trace,
                  [questionID |-> questionID, correct |-> correct,
                   before |-> stateBefore, after |-> upd.state,
                   cBefore |-> Get(correctCounts, questionID, 0),
                   iBefore |-> Get(incorrectCounts, questionID, 0),
                   cAfter |-> upd.cc[questionID], iAfter |-> upd.ic[questionID],
                   reward |-> reward, inBank |-> questionID \in DOMAIN questionBankByID])
           /\ ret' = [op |-> "evaluateResponse", questionID |-> questionID,
                      correct |-> correct,
                      signals |-> highlightKeys(correct,
                          [history |-> history', score |-> tally.score,
                           correctAnswers |-> tally.correctAnswers,
                           totalQuestions |-> tally.totalQuestions,
                           state |-> state, q_table |-> q_table,
                           askedQuestionsThisSession |-> askedQuestionsThisSession])]
    /\ budget' = budget - 1
    /\ UNCHANGED << pc, ids, ctor >>

(* ------------------------------ construction --------------------------- *)
\* the 3-question bank of the end-to-end scenario: topics 101, 102, 104, difficulty 0
BankScenario == (1 :> Q(101, 0, "n0")) @@ (2 :> Q(102, 0, "c0")) @@ (3 :> Q(104, 0, "s0"))
\* harder questions, topics 103 and 105, and one topic below 101
BankMixed == (1 :> Q(103, 1, "c1")) @@ (2 :> Q(105, 2, "s2")) @@ (3 :> Q(100, 0, "x0"))
BankSingle == (1 :> Q(101, 2, "n2"))
BankNotes == (1 :> Q(101, 0, "n0"))
BankChords == (1 :> Q(103, 1, "c1"))
BankScales == (1 :> Q(104, 2, "s2"))
\* one question of a topic below 101, which belongs to no domain
BankOther == 1 :> Q(100, 2, "x2")
BankNotesChords == (1 :> Q(101, 0, "n0")) @@ (2 :> Q(103, 2, "c2"))
BankScalesChords == (1 :> Q(104, 1, "s1")) @@ (2 :> Q(102, 0, "c0"))

\* a Q-table of an earlier session with values recorded for state s
StoredTable(s) == s :> ((1 :> (0 - FScale \div 4)) @@ (2 :> FScale \div 2) @@ (3 :> FScale \div 2))

DeepStates == {St(0, 0, 0), St(2, 2, 2), St(0, 1, 2), St(1, 2, 0)}

\* a constructor that starts from an empty Q-table whatever it is given
ConstructedEmptyTable(bank, qTable, initialState) ==
    /\ questionBankByID = bank
    /\ q_table = EmptyMap
    /\ state = initialState
    /\ history = << >>
    /\ askedQuestionsThisSession = {}
    /\ correctCounts = EmptyMap
    /\ incorrectCounts = EmptyMap
    /\ score = 0
    /\ correctAnswers = 0
    /\ totalQuestions = 0
    /\ pc = "ready"
    /\ ret = NoCall
    /\ trace = << >>
    /\ ctor = [questionBank |-> bank, qTable |-> qTable, initialState |-> initialState]

\* lines 31-45: the members after the constructor's initialiser list
Constructed(bank, qTable, initialState) ==
    /\ questionBankByID = bank
    /\ q_table = qTable
    /\ state = initialState
    /\ history = << >>
    /\ askedQuestionsThisSession = {}
    /\ correctCounts = EmptyMap
    /\ incorrectCounts = EmptyMap
    /\ score = 0
    /\ correctAnswers = 0
    /\ totalQuestions = 0
    /\ pc = "ready"
    /\ ret = NoCall
    /\ trace = << >>
    /\ ctor = [questionBank |-> bank, qTable |-> qTable, initialState |-> initialState]

\* the same constructor run as a step: "new AdaptiveQuiz(...)" replaces the engine
Construct(bank, qTable, initialState) ==
    /\ questionBankByID' = bank
    /\ q_table' = qTable
    /\ state' = initialState
    /\ history' = << >>
    /\ askedQuestionsThisSession' = {}
    /\ correctCounts' = EmptyMap
    /\ incorrectCounts' = EmptyMap
    /\ score' = 0
    /\ correctAnswers' = 0
    /\ totalQuestions' = 0
    /\ pc' = "ready"
    /\ ret' = NoCall
    /\ trace' = << >>
    /\ ctor' = [questionBank |-> bank, qTable |-> qTable, initialState |-> initialState]

\* every initial skill state, stored and empty Q-tables, short sessions
InitWide ==
    /\ \E bank \in {BankScenario, BankMixed, BankSingle, EmptyMap}, s \in States :
         \E qt \in {EmptyMap, StoredTable(s)} : Constructed(bank, qt, s)
    /\ ids = 1..3
    /\ budget = MaxWideCalls
    /\ NoDriver

\* two-question banks, sessions long enough to cross a threshold
InitDeep ==
    /\ \E bank \in {BankNotesChords, BankScalesChords}, s \in DeepStates :
         Constructed(bank, EmptyMap, s)
    /\ ids = 1..2
    /\ budget = MaxCalls
    /\ NoDriver

\* one-question banks, sessions long enough to cross two thresholds
InitLong ==
    /\ \E bank \in {BankNotes, BankChords, BankScales, BankOther}, s \in DeepStates :
         Constructed(bank, EmptyMap, s)
    /\ ids = {1}
    /\ budget = MaxLongCalls
    /\ NoDriver

Init == InitWide \/ InitDeep \/ InitLong

Next ==
    \/ getNextAction /\ UNCHANGED driver
    \/ /\ \E questionID \in ids, correct \in BOOLEAN : evaluateResponse(questionID, correct)
       /\ UNCHANGED driver

Spec == Init /\ [][Next]_vars

(* --------------------- getReward as a pure function -------------------- *)
InitReward ==
    /\ Constructed(BankScenario, EmptyMap, St(0, 0, 0))
    /\ ids = 1..3
    /\ budget = 0
    /\ NoDriver

callGetReward ==
    /\ \E before \in States, after \in States, correct \in BOOLEAN :
         ret' = [op |-> "getReward", before |-> before, after |-> after,
                 correct |-> correct, value |-> getReward(before, after, correct)]
    /\ UNCHANGED << engine, pc, trace, ids, ctor, budget >>

NextReward == callGetReward /\ UNCHANGED driver

SpecReward == InitReward /\ [][NextReward]_vars

(* -------------------- updateQTable as a pure function ------------------ *)
\* the three values getReward can produce
Rewards == {5 * FScale, (5 * FScale) \div 2, 0 - ((5 * FScale) \div 2)}

\* an engine holding an empty or a stored Q-table
InitQUpdate ==
    /\ \E qt \in {EmptyMap, StoredTable(St(0, 0, 0))} :
         Constructed(BankScenario, qt, St(0, 0, 0))
    /\ ids = 1..3
    /\ budget = 0
    /\ NoDriver

\* the first updateQTable call on the constructed engine
callUpdateQTable ==
    /\ ret = NoCall
    /\ \E currentState \in States, questionID \in ids,
          reward \in Rewards, nextState \in States :
         /\ q_table' = updateQTable(q_table, currentState, questionID, reward, nextState)
         /\ ret' = [op |-> "updateQTable", qt |-> q_table, currentState |-> currentState,
                    questionID |-> questionID, reward |-> reward, nextState |-> nextState]
    /\ UNCHANGED << questionBankByID, state, history, askedQuestionsThisSession,
                    correctCounts, incorrectCounts, score, correctAnswers,
                    totalQuestions, pc, trace, ids, ctor, budget >>

NextQUpdate == callUpdateQTable /\ UNCHANGED driver

SpecQUpdate == InitQUpdate /\ [][NextQUpdate]_vars

(* ------------------- the explore branch on larger pools ---------------- *)
\* one question of each explore group and one chords question of topic 103
BankFour ==
    (1 :> Q(101, 0, "n0")) @@ (2 :> Q(102, 0, "c0")) @@ (3 :> Q(104, 0, "s0"))
        @@ (4 :> Q(103, 0, "c0b"))

InitExplore ==
    /\ \E bank \in {BankFour, BankScenario, BankMixed}, s \in DeepStates :
         Constructed(bank, EmptyMap, s)
    /\ ids = 1..4
    /\ budget = MaxWideCalls
    /\ NoDriver

NextExplore ==
    \/ getNextAction /\ UNCHANGED driver
    \/ /\ \E questionID \in ids, correct \in BOOLEAN : evaluateResponse(questionID, correct)
       /\ UNCHANGED driver

SpecExplore == InitExplore /\ [][NextExplore]_vars

(* ------------------------- sequences of answers ------------------------ *)
\* Q-tables of an earlier session whose values sit at the ends of the range
\* a session can produce: 50 for every state, and -2.5 for state s
HighTable == [s \in States |-> (1 :> 50 * FScale) @@ (2 :> 50 * FScale)]
LowTable(s) == s :> ((1 :> (0 - (5 * FScale) \div 2)) @@ (2 :> (0 - (5 * FScale) \div 2)))

InitAnswers ==
    /\ \E bank \in {BankNotesChords, BankMixed}, s \in DeepStates :
         \E qt \in {EmptyMap, StoredTable(s), HighTable, LowTable(s)} :
            Constructed(bank, qt, s)
    /\ ids = 1..2
    /\ budget = MaxCalls
    /\ NoDriver

NextAnswers ==
    /\ \E questionID \in ids, correct \in BOOLEAN : evaluateResponse(questionID, correct)
    /\ UNCHANGED driver

SpecAnswers == InitAnswers /\ [][NextAnswers]_vars

(* ----------------- getActionsForStateLevel as a function --------------- *)
\* every skill state, banks with every topic range; the bank also after an
\* answer to an id it does not hold
InitCandidates ==
    /\ \E bank \in {BankScenario, BankMixed, BankSingle, BankNotesChords, EmptyMap},
          s \in States : Constructed(bank, EmptyMap, s)
    /\ ids = 1..3
    /\ budget = MaxWideCalls
    /\ NoDriver

callGetActionsForStateLevel ==
    /\ pc = "ready"
    /\ \E allowSlightStretch \in BOOLEAN :
         ret' = [op |-> "getActionsForStateLevel",
                 allowSlightStretch |-> allowSlightStretch,
                 value |-> getActionsForStateLevel(questionBankByID, state,
                                                   allowSlightStretch)]
    /\ UNCHANGED << engine, pc, trace, ids, ctor, budget >>

NextCandidates ==
    \/ /\ \E questionID \in ids, correct \in BOOLEAN : evaluateResponse(questionID, correct)
       /\ UNCHANGED driver
    \/ callGetActionsForStateLevel /\ UNCHANGED driver

SpecCandidates == InitCandidates /\ [][NextCandidates]_vars

(* ---------------------- maxQValue as a function ----------------------- *)
\* a stored row whose values are all negative, and a row without entries
NegativeTable(s) == s :> ((1 :> (0 - FScale \div 4)) @@ (3 :> (0 - 5 * FScale)))
EmptyRowTable(s) == s :> EmptyMap

InitMaxQ ==
    /\ \E s \in DeepStates :
         \E qt \in {EmptyMap, StoredTable(s), NegativeTable(s), EmptyRowTable(s)} :
             Constructed(BankScenario, qt, s)
    /\ ids = 1..3
    /\ budget = MaxWideCalls
    /\ NoDriver

callMaxQValue ==
    /\ pc = "ready"
    /\ \E s \in DeepStates :
         /\ q_table' = maxQValueTable(q_table, s)
         /\ ret' = [op |-> "maxQValue", s |-> s, value |-> maxQValue(q_table, s)]
    /\ UNCHANGED << questionBankByID, state, history, askedQuestionsThisSession,
                    correctCounts, incorrectCounts, score, correctAnswers,
                    totalQuestions, pc, trace, ids, ctor, budget >>

NextMaxQ ==
    \/ /\ \E questionID \in ids, correct \in BOOLEAN : evaluateResponse(questionID, correct)
       /\ UNCHANGED driver
    \/ callMaxQValue /\ UNCHANGED driver

SpecMaxQ == InitMaxQ /\ [][NextMaxQ]_vars

(* ------------------------------ accessors ------------------------------ *)
\* the bank after a lookup made with operator[] instead of find()/at()
BankFindInserting(bank, questionID) == BankTouch(bank, questionID)

\* lines 171-172: find() and at() leave the map as it is
BankFind(bank, questionID) == bank

\* lines 171-175: the bank's entry, or Question() for an id that is not a key
QuestionFound(bank, questionID) ==
    IF questionID \in DOMAIN bank THEN bank[questionID] ELSE DefaultQuestion

getQuestion(questionID) ==
    /\ pc = "ready"
    /\ questionBankByID' = BankFind(questionBankByID, questionID)
    /\ ret' = [op |-> "getQuestion", questionID |-> questionID,
               value |-> QuestionFound(questionBankByID, questionID)]
    /\ UNCHANGED << q_table, state, history, askedQuestionsThisSession, correctCounts,
                    incorrectCounts, score, correctAnswers, totalQuestions,
                    pc, trace, ids, ctor, budget >>

\* the table after a lookup made with q_table[s][questionID]
QTableFindInserting(qt, s, questionID) ==
    LET row == Get(qt, s, EmptyMap)
    IN  Put(qt, s, Put(row, questionID, Get(row, questionID, 0)))

\* lines 278-281: the two find() calls of the const member leave the table as it is
QTableFind(qt, s, questionID) == qt

\* lines 278-283: the stored value, or 0.0f when the state or the id is absent
QValueFound(qt, s, questionID) ==
    IF s \in DOMAIN qt /\ questionID \in DOMAIN qt[s] THEN qt[s][questionID] ELSE 0

getQValue(s, questionID) ==
    /\ pc = "ready"
    /\ q_table' = QTableFind(q_table, s, questionID)
    /\ ret' = [op |-> "getQValue", s |-> s, questionID |-> questionID,
               value |-> QValueFound(q_table, s, questionID)]
    /\ UNCHANGED << questionBankByID, state, history, askedQuestionsThisSession,
                    correctCounts, incorrectCounts, score, correctAnswers,
                    totalQuestions, pc, trace, ids, ctor, budget >>

\* a const accessor returning value
Returns(op, value) ==
    /\ pc = "ready"
    /\ ret' = [op |-> op, value |-> value]
    /\ UNCHANGED << engine, pc, trace, ids, ctor, budget >>

getCurrentState   == Returns("getCurrentState", state)
getQTable         == Returns("getQTable", q_table)
getCorrectAnswers == Returns("getCorrectAnswers", correctAnswers)
getTotalQuestions == Returns("getTotalQuestions", totalQuestions)
getScore          == Returns("getScore", score * FScale)
callGetAccuracy   == Returns("getAccuracy", getAccuracy(correctAnswers, totalQuestions))
getHistory        == Returns("getHistory", history)

\* the engines the accessors are called on, before and after answers
InitQuery ==
    /\ \E bank \in {BankScenario, BankSingle, EmptyMap}, s \in DeepStates :
         \E qt \in {EmptyMap, StoredTable(s)} : Constructed(bank, qt, s)
    /\ ids = 1..3
    /\ budget = MaxWideCalls
    /\ NoDriver

NextQuery ==
    \/ /\ \E questionID \in ids, correct \in BOOLEAN : evaluateResponse(questionID, correct)
       /\ UNCHANGED driver
    \/ (\E questionID \in ids : getQuestion(questionID)) /\ UNCHANGED driver
    \/ (\E s \in DeepStates, questionID \in ids : getQValue(s, questionID)) /\ UNCHANGED driver
    \/ getCurrentState /\ UNCHANGED driver
    \/ getQTable /\ UNCHANGED driver
    \/ getCorrectAnswers /\ UNCHANGED driver
    \/ getTotalQuestions /\ UNCHANGED driver
    \/ getScore /\ UNCHANGED driver
    \/ callGetAccuracy /\ UNCHANGED driver
    \/ getHistory /\ UNCHANGED driver

SpecQuery == InitQuery /\ [][NextQuery]_vars

(* ======================================================================= *)
(* Persistence: State keys and the Q-table of LoadDataManager              *)
(* ======================================================================= *)
\* a QString is the sequence of its characters
DigitChars == << "0", "1", "2", "3", "4", "5", "6", "7", "8", "9" >>
IsDigit(c) == \E i \in 1..10 : DigitChars[i] = c
DigitValue(c) == (CHOOSE i \in 1..10 : DigitChars[i] = c) - 1

\* the characters of the keys in ascending code order, as QJsonObject sorts them
CharOrder == << "%", "+", ",", "-" >> \o DigitChars \o << "[", "]" >>
CharCode(c) == CHOOSE i \in 1..Len(CharOrder) : CharOrder[i] = c

RECURSIVE KeyLess(_, _)
KeyLess(a, b) ==
    IF b = << >> THEN FALSE
    ELSE IF a = << >> THEN TRUE
    ELSE IF CharCode(Head(a)) # CharCode(Head(b)) THEN CharCode(Head(a)) < CharCode(Head(b))
    ELSE KeyLess(Tail(a), Tail(b))

\* the decimal text QString::arg(int) puts in place of a marker
RECURSIVE NatText(_)
NatText(n) ==
    IF n < 10 THEN << DigitChars[n + 1] >>
    ELSE NatText(n \div 10) \o << DigitChars[(n % 10) + 1] >>

IntText(n) == IF n < 0 THEN << "-" >> \o NatText(0 - n) ELSE NatText(n)

\* a place marker at position i: '%' and one or two digits; its length, or 0
MarkerLen(str, i) ==
    IF str[i] = "%" /\ i + 1 <= Len(str) /\ IsDigit(str[i + 1])
    THEN IF i + 2 <= Len(str) /\ IsDigit(str[i + 2]) THEN 3 ELSE 2
    ELSE 0

MarkerNumber(str, i) ==
    IF MarkerLen(str, i) = 3
    THEN 10 * DigitValue(str[i + 1]) + DigitValue(str[i + 2])
    ELSE DigitValue(str[i + 1])

RECURSIVE ReplaceMarker(_, _, _, _)
ReplaceMarker(str, i, number, text) ==
    IF i > Len(str) THEN << >>
    ELSE IF MarkerLen(str, i) > 0 /\ MarkerNumber(str, i) = number
         THEN text \o ReplaceMarker(str, i + MarkerLen(str, i), number, text)
         ELSE << str[i] >> \o ReplaceMarker(str, i + 1, number, text)

\* QString::arg(int): every occurrence of the lowest-numbered marker is replaced
arg(str, a) ==
    LET markers == {i \in 1..Len(str) : MarkerLen(str, i) > 0}
    IN  IF markers = {} THEN str
        ELSE ReplaceMarker(str, 1, Min({MarkerNumber(str, i) : i \in markers}), IntText(a))

\* QString::remove(QChar)
remove(str, c) == SelectSeq(str, LAMBDA x : x # c)

\* QString::split(QChar): the parts between the separators, empty parts kept
RECURSIVE split(_, _)
split(str, sep) ==
    IF \A i \in 1..Len(str) : str[i] # sep THEN << str >>
    ELSE LET i == Min({j \in 1..Len(str) : str[j] = sep})
         IN  << SubSeq(str, 1, i - 1) >> \o split(SubSeq(str, i + 1, Len(str)), sep)

\* QString::mid(position, n)
mid(str, position, n) ==
    IF position > Len(str) THEN << >>
    ELSE IF n < 0 \/ position + n > Len(str) THEN SubSeq(str, position + 1, Len(str))
    ELSE SubSeq(str, position + 1, position + n)

RECURSIVE DigitsValue(_, _)
DigitsValue(str, acc) ==
    IF str = << >> THEN acc ELSE DigitsValue(Tail(str), 10 * acc + DigitValue(Head(str)))

\* QString::toInt(): a sign and decimal digits, 0 for every other text
toInt(str) ==
    LET signed == str # << >> /\ Head(str) \in {"-", "+"}
        digits == IF signed THEN Tail(str) ELSE str
    IN  IF digits = << >> \/ \E i \in 1..Len(digits) : ~IsDigit(digits[i]) THEN 0
        ELSE IF signed /\ Head(str) = "-" THEN 0 - DigitsValue(digits, 0)
        ELSE DigitsValue(digits, 0)

\* the key with the three levels in another order: "[chords,notes,scales]"
toKeyChordsFirst(s) ==
    arg(arg(arg(<< "[", "%", "1", ",", "%", "2", ",", "%", "3", "]" >>, s.chords),
            s.notes), s.scales)

\* state.h lines 84-86: QString("[%1,%2,%3]").arg(notes).arg(chords).arg(scales)
toKey(s) ==
    arg(arg(arg(<< "[", "%", "1", ",", "%", "2", ",", "%", "3", "]" >>, s.notes),
            s.chords), s.scales)

\* what the members of "State state;" hold when nothing is assigned to them
IndeterminateStates == {St(0, 0, 0), St(0 - 1, 7, 3)}

\* state.h lines 96-107; with fewer than three parts the State stays as declared
fromKey(key, indeterminate) ==
    LET temp  == remove(remove(key, "["), "]")
        parts == split(temp, ",")
    IN  IF Len(parts) >= 3
        THEN St(toInt(parts[1]), toInt(parts[2]), toInt(parts[3]))
        ELSE indeterminate

\* operator< without the two "greater: return false" tests
StateLessNoGreater(a, b) ==
    IF a.notes < b.notes THEN TRUE
    ELSE IF a.chords < b.chords THEN TRUE
    ELSE a.scales < b.scales

\* the lexicographic operator< of State, the order of std::map<State, ...>
StateLess(a, b) ==
    IF a.notes # b.notes THEN a.notes < b.notes
    ELSE IF a.chords # b.chords THEN a.chords < b.chords
    ELSE a.scales < b.scales

MinState(S) == CHOOSE x \in S : \A y \in S \ {x} : StateLess(x, y)
MinKey(S) == CHOOSE x \in S : \A y \in S \ {x} : KeyLess(x, y)

\* the action key with its closing bracket left in: mid(1, length - 1)
ActionIdKeepBracket(actionKey) == toInt(mid(actionKey, 1, Len(actionKey) - 1))

\* loaddatamanager.cpp lines 270-271: the id between the brackets of "[id]"
ActionId(actionKey) == toInt(mid(actionKey, 1, Len(actionKey) - 2))

\* lines 298-301: the action object of one state
RECURSIVE SavedActions(_, _, _)
SavedActions(actionMap, todo, actionObj) ==
    IF todo = {} THEN actionObj
    ELSE LET questionID == Min(todo)
             actionKey  == arg(<< "[", "%", "1", "]" >>, questionID)
         IN  SavedActions(actionMap, todo \ {questionID},
                          Put(actionObj, actionKey, actionMap[questionID]))

\* lines 294-304: the "table" object written for qTable
RECURSIVE SavedStates(_, _, _)
SavedStates(qTable, todo, tableObj) ==
    IF todo = {} THEN tableObj
    ELSE LET s == MinState(todo)
         IN  SavedStates(qTable, todo \ {s},
                         Put(tableObj, toKey(s),
                             SavedActions(qTable[s], DOMAIN qTable[s], EmptyMap)))

\* LoadDataManager::saveQTable: the table object that replaces the stored one
SavedQTable(qTable) == SavedStates(qTable, DOMAIN qTable, EmptyMap)

\* lines 267-276: qTable[state][questionID] = qValue for every action of one state
RECURSIVE LoadedActions(_, _, _, _)
LoadedActions(actionMap, todo, s, qTable) ==
    IF todo = {} THEN qTable
    ELSE LET actionKey == MinKey(todo)
             row       == Get(qTable, s, EmptyMap)
         IN  LoadedActions(actionMap, todo \ {actionKey}, s,
                 Put(qTable, s, Put(row, ActionId(actionKey), actionMap[actionKey])))

\* lines 258-278: the states of the table object, in the order of their keys
RECURSIVE LoadedStates(_, _, _, _)
LoadedStates(tableObj, todo, indeterminate, qTable) ==
    IF todo = {} THEN qTable
    ELSE LET stateKey == MinKey(todo)
         IN  LoadedStates(tableObj, todo \ {stateKey}, indeterminate,
                 LoadedActions(tableObj[stateKey], DOMAIN tableObj[stateKey],
                               fromKey(stateKey, indeterminate), qTable))

\* LoadDataManager::getQTable: the map built from the stored table object
LoadedQTable(tableObj, indeterminate) ==
    LoadedStates(tableObj, DOMAIN tableObj, indeterminate, EmptyMap)

(* ------------------- the persistence service on its own ---------------- *)
\* rows with one-, two- and three-digit ids, positive and negative values
PersistRows ==
    { 7 :> FScale,
      (0 :> 0) @@ (12 :> (0 - FScale \div 4)),
      (1 :> FScale \div 2) @@ (10 :> FScale \div 4) @@ (105 :> 5 * FScale) }

\* the Q-tables handed to saveQTable: empty, one state, two states
PersistTables ==
    {EmptyMap}
    \cup {s :> row : s \in States, row \in PersistRows}
    \cup {(s :> (7 :> FScale)) @@ (St(2, 1, 0) :> row) :
              s \in {St(0, 1, 2), St(1, 2, 0), St(2, 2, 2)}, row \in PersistRows}

\* the texts handed to fromKey: every key toKey writes, and two it does not
KeyInputs ==
    {toKey(s) : s \in States} \cup {<< "[", "1", ",", "2", "]" >>, << >>}

InitPersist ==
    /\ Constructed(BankScenario, EmptyMap, St(0, 0, 0))
    /\ ids = 1..3
    /\ budget = 0
    /\ NoDriver

\* the key functions are exercised before the stored table is touched
callToKey ==
    /\ ret.op \in {"none", "toKey", "fromKey"}
    /\ \E s \in States : ret' = [op |-> "toKey", s |-> s, value |-> toKey(s)]
    /\ UNCHANGED << engine, pc, trace, ids, ctor, budget, driver >>

callFromKey ==
    /\ ret.op \in {"none", "toKey", "fromKey"}
    /\ \E key \in KeyInputs, indeterminate \in IndeterminateStates :
         ret' = [op |-> "fromKey", key |-> key, value |-> fromKey(key, indeterminate)]
    /\ UNCHANGED << engine, pc, trace, ids, ctor, budget, driver >>

\* LoadDataManager::saveQTable(qTable): the table object is replaced wholesale
\* and the user is no longer new
saveQTable(qTable) ==
    /\ m_data' = [m_data EXCEPT !.table = SavedQTable(qTable), !.newUser = FALSE]
    /\ ret' = [op |-> "saveQTable", qTable |-> qTable]
    /\ UNCHANGED << engine, pc, trace, ids, ctor, budget,
                    widget, quizOverHandled, quizOverHandledLocal, resources, log >>

\* LoadDataManager::getQTable()
loadQTable ==
    /\ \E indeterminate \in IndeterminateStates :
         ret' = [op |-> "loadQTable", value |-> LoadedQTable(m_data.table, indeterminate)]
    /\ UNCHANGED << engine, pc, trace, ids, ctor, budget, driver >>

NextPersist ==
    \/ callToKey
    \/ callFromKey
    \/ \E qTable \in PersistTables : saveQTable(qTable)
    \/ loadQTable

SpecPersist == InitPersist /\ [][NextPersist]_vars

(* -------------------------- State::operator< -------------------------- *)
\* the states of the engine, and two that only a q_table.json key can give
OrderStates == States \cup {St(0 - 1, 0, 3), St(3, 0 - 1, 0)}

InitOrder ==
    /\ Constructed(BankScenario, EmptyMap, St(0, 0, 0))
    /\ ids = 1..3
    /\ budget = MaxWideCalls
    /\ NoDriver

\* a < b, b < a, b < c, a < c and a < a for three states
callLess ==
    /\ ret = NoCall
    /\ \E a \in OrderStates, b \in OrderStates, c \in OrderStates :
         ret' = [op |-> "operator<", a |-> a, b |-> b, c |-> c,
                 ab |-> StateLess(a, b), ba |-> StateLess(b, a),
                 bc |-> StateLess(b, c), ac |-> StateLess(a, c),
                 aa |-> StateLess(a, a)]
    /\ UNCHANGED << engine, pc, trace, ids, ctor, budget >>

NextOrder == callLess /\ UNCHANGED driver

SpecOrder == InitOrder /\ [][NextOrder]_vars

(* ======================================================================= *)
(* QuizWidget: the screen that drives the engine                           *)
(* ======================================================================= *)
NUM_QUIZ_QUESTIONS == 10

\* quiz sessions started in one process
MaxSessions == 2
\* answers the screen still takes after the last question of a session
MaxExtraAnswers == 1

\* the piano keys the player uses: C4 and C5
Keys == {60, 72}

NoteBases == << "C", "C#", "D", "D#", "E", "F", "F#", "G", "G#", "A", "A#", "B", "C" >>

\* the switch of noteIndexToName: base and octave, or the empty name
noteIndexToName(noteIndex) ==
    IF noteIndex \in 60..72
    THEN [base |-> NoteBases[noteIndex - 59], octave |-> IF noteIndex = 72 THEN 5 ELSE 4]
    ELSE [base |-> "", octave |-> 0]

\* lines 324-334: chop(1), + "4", append unless contained
NotesAfterKey(currentChordNotes, noteIndex) ==
    LET noteName       == noteIndexToName(noteIndex)
        noteWithOctave == [base |-> noteName.base, octave |-> 4]
    IN  IF noteName.base = "" \/ noteWithOctave \in Range(currentChordNotes)
        THEN currentChordNotes
        ELSE Append(currentChordNotes, noteWithOctave)

\* a question of the resource file, with the input it expects
QuizQuestion(tid, diff, desc, expec) ==
    [topicID |-> tid, difficulty |-> diff, description |-> desc, expectedInput |-> expec]

\* getExpectedInput().split("-"): the notes of the expected input, "" for Question()
ExpectedNotes(question) ==
    IF "expectedInput" \in DOMAIN question THEN question.expectedInput ELSE << "" >>

Count(q, x) == Cardinality({i \in DOMAIN q : q[i] = x})

\* two note lists that are equal once sorted and joined with "-"
SameNotes(a, b) ==
    /\ Len(a) = Len(b)
    /\ \A x \in Range(a) \cup Range(b) : Count(a, x) = Count(b, x)

\* lines 395-428: both inputs without their octaves, compared in sorted order
IsCorrect(currentChordNotes, question) ==
    SameNotes([i \in DOMAIN currentChordNotes |-> currentChordNotes[i].base],
              ExpectedNotes(question))

\* the resource file: one notes question the player's C answers, or does not
BankRight == 1 :> QuizQuestion(101, 0, "play C", << "C" >>)
BankWrong == 1 :> QuizQuestion(101, 0, "play G", << "G" >>)

\* the skill levels a new user can enter in the dialog
NewUserStates == {St(0, 0, 0), St(1, 1, 1)}

InitWidget ==
    /\ Constructed(EmptyMap, EmptyMap, St(0, 0, 0))
    /\ ids = {}
    /\ budget = MaxSessions * (NUM_QUIZ_QUESTIONS + MaxExtraAnswers)
    /\ widget = NoWidget
    /\ quizOverHandled = FALSE
    /\ quizOverHandledLocal = FALSE
    /\ m_data \in {[newUser |-> TRUE, userState |-> St(0, 0, 0), table |-> EmptyMap],
                   [newUser |-> FALSE, userState |-> St(0, 1, 0), table |-> EmptyMap]}
    /\ resources \in {BankRight, BankWrong, EmptyMap}
    /\ log = [session |-> 0, saves |-> 0, finished |-> 0]

(* ------------------------------ startQuiz ------------------------------ *)
\* MainWindow::startAdaptiveQuiz: the old screen is dropped, a new QuizWidget is
\* constructed and startQuiz runs up to the construction of its engine
startAdaptiveQuiz ==
    /\ widget.at \in {"none", "idle"}
    /\ log.session < MaxSessions
    /\ quizOverHandled' = FALSE
    /\ log' = [session |-> log.session + 1, saves |-> 0, finished |-> 0]
    /\ \/ /\ resources = EmptyMap
          /\ widget' = [NoWidget EXCEPT !.at = "idle"]
          /\ UNCHANGED << engine, pc, ret, trace, ctor, ids, m_data >>
       \/ /\ resources # EmptyMap
          /\ \E bank \in {resources}, indeterminate \in IndeterminateStates,
                userState \in (IF m_data.newUser THEN NewUserStates
                               ELSE {m_data.userState}) :
               /\ Construct(bank, LoadedQTable(m_data.table, indeterminate), userState)
               /\ m_data' = [m_data EXCEPT !.userState = userState, !.newUser = FALSE]
               /\ ids' = DOMAIN bank
          /\ widget' = [NoWidget EXCEPT !.quiz = TRUE, !.at = "started"]
    /\ UNCHANGED << budget, quizOverHandledLocal, resources >>

\* startQuiz lines 238-249: the first question
firstQuestion ==
    /\ widget.at = "started"
    /\ getNextAction
    /\ widget' = [widget EXCEPT !.currentQuestionId = ret'.value, !.at = "idle"]
    /\ UNCHANGED << quizOverHandled, quizOverHandledLocal, m_data, resources, log >>

(* ------------------------------ submitChord ---------------------------- *)
\* submitChord() entered with the members w; handleQuizOver is part of it up to
\* its message box
submitChord(w) ==
    IF ~w.quiz \/ w.currentChordNotes = << >>
    THEN /\ widget' = w
         /\ UNCHANGED << engine, pc, ret, trace, ctor, ids, budget,
                         quizOverHandledLocal, m_data, log >>
    ELSE /\ w.questionsAnswered < NUM_QUIZ_QUESTIONS + MaxExtraAnswers
         /\ evaluateResponse(w.currentQuestionId,
                IsCorrect(w.currentChordNotes,
                          QuestionFound(questionBankByID, w.currentQuestionId)))
         /\ IF w.questionsAnswered + 1 >= NUM_QUIZ_QUESTIONS
            THEN IF quizOverHandledLocal
                 THEN /\ widget' = [w EXCEPT !.questionsAnswered = @ + 1,
                                             !.currentChordNotes = << >>,
                                             !.isProcessingSubmission = FALSE]
                      /\ UNCHANGED << quizOverHandledLocal, m_data, log >>
                 ELSE /\ quizOverHandledLocal' = TRUE
                      /\ m_data' = [m_data EXCEPT !.table = SavedQTable(q_table'), !.newUser = FALSE,
                                                  !.userState = state']
                      /\ log' = [log EXCEPT !.saves = @ + 1]
                      /\ widget' = [w EXCEPT !.questionsAnswered = @ + 1,
                                             !.isProcessingSubmission = TRUE,
                                             !.at = "dialog"]
            ELSE /\ widget' = [w EXCEPT !.questionsAnswered = @ + 1,
                                        !.isProcessingSubmission = TRUE,
                                        !.at = "answered"]
                 /\ UNCHANGED << quizOverHandledLocal, m_data, log >>

\* submitChord lines 447-461: the next question, then the chord is cleared
nextQuestion ==
    /\ widget.at = "answered"
    /\ getNextAction
    /\ widget' = [widget EXCEPT !.currentQuestionId = ret'.value,
                                !.currentChordNotes = << >>,
                                !.isProcessingSubmission = FALSE,
                                !.at = "idle"]
    /\ UNCHANGED << quizOverHandled, quizOverHandledLocal, m_data, resources, log >>

\* the message box of handleQuizOver is closed: quizFinished is emitted and
\* submitChord clears the chord
closeQuizOverDialog ==
    /\ widget.at = "dialog"
    /\ log' = [log EXCEPT !.finished = @ + 1]
    /\ widget' = [widget EXCEPT !.currentChordNotes = << >>,
                                !.isProcessingSubmission = FALSE,
                                !.at = "idle"]
    /\ UNCHANGED << engine, pc, ret, trace, ctor, ids, budget,
                    quizOverHandled, quizOverHandledLocal, m_data, resources >>

(* ------------------------------ key events ----------------------------- *)
\* both connections of keyPressed run the handler; the second run changes nothing
handleKeyPressed(noteIndex) ==
    /\ widget.at = "idle"
    /\ noteIndex \notin widget.currentlyPressedKeys
    /\ ~(widget.isProcessingSubmission \/ ~widget.quiz)
    /\ widget' = [widget EXCEPT
                    !.currentlyPressedKeys = @ \cup {noteIndex},
                    !.currentChordNotes = NotesAfterKey(@, noteIndex),
                    !.chordTimer = TRUE]
    /\ UNCHANGED << engine, pc, ret, trace, ctor, ids, budget,
                    quizOverHandled, quizOverHandledLocal, m_data, resources, log >>

\* the second run of the handler finds the chord cleared and returns
handleKeyReleased(noteIndex) ==
    /\ widget.at = "idle"
    /\ widget.quiz
    /\ noteIndex \in widget.currentlyPressedKeys
    /\ LET w == [widget EXCEPT !.currentlyPressedKeys = @ \ {noteIndex}]
       IN  IF w.currentlyPressedKeys = {}
           THEN submitChord([w EXCEPT !.isProcessingSubmission = FALSE])
           ELSE /\ widget' = w
                /\ UNCHANGED << engine, pc, ret, trace, ctor, ids, budget,
                                quizOverHandledLocal, m_data, log >>
    /\ UNCHANGED << quizOverHandled, resources >>

\* the single-shot chordTimer fires: handleChordTimeout, then submitChord, which
\* is connected to the same signal; the event loop of the message box delivers
\* it too
handleChordTimeout ==
    /\ widget.at \in {"idle", "dialog"}
    /\ widget.chordTimer
    /\ submitChord([widget EXCEPT !.chordTimer = FALSE])
    /\ UNCHANGED << quizOverHandled, resources >>

NextWidget ==
    \/ startAdaptiveQuiz
    \/ firstQuestion
    \/ \E noteIndex \in Keys : handleKeyPressed(noteIndex)
    \/ \E noteIndex \in Keys : handleKeyReleased(noteIndex)
    \/ handleChordTimeout
    \/ nextQuestion
    \/ closeQuizOverDialog

SpecWidget == InitWidget /\ [][NextWidget]_vars

(* ======================================================================= *)
(* Properties                                                              *)
(* ======================================================================= *)
\* the domain a topic id belongs to: 101 notes, 102-103 chords, 104 and above scales
HasDomain(topicID) == topicID >= 101
LevelOf(s, topicID) ==
    IF topicID = 101 THEN s.notes
    ELSE IF topicID <= 103 THEN s.chords
    ELSE s.scales
WithLevel(s, topicID, v) ==
    IF topicID = 101 THEN [s EXCEPT !.notes = v]
    ELSE IF topicID <= 103 THEN [s EXCEPT !.chords = v]
    ELSE [s EXCEPT !.scales = v]

\* calls i .. i+n-1 are n consecutive evaluateResponse(q, c) calls
Run(i, n, q, c) ==
    /\ i + n - 1 <= Len(trace)
    /\ \A j \in i..(i + n - 1) : trace[j].questionID = q /\ trace[j].correct = c

TopicOf(q) == questionBankByID[q].topicID

\* C1: after any sequence of evaluateResponse and getNextAction calls each of
\* notes, chords and scales is in [0,2], in the current state and in the
\* state every earlier call left behind
C1_LevelsInRange ==
    /\ state \in States
    /\ \A i \in 1..Len(trace) : trace[i].after \in States

\* a correct answer reached the promotion threshold with the domain already at 2
C1_Witness ==
    \E i \in 1..Len(trace) :
        /\ trace[i].correct
        /\ trace[i].cAfter = 0
        /\ HasDomain(TopicOf(trace[i].questionID))
        /\ LevelOf(trace[i].before, TopicOf(trace[i].questionID)) = 2
        /\ trace[i].after = trace[i].before

\* C2: the history has as many entries as getTotalQuestions() reports, and
\* both equal the number of evaluateResponse calls made so far
C2_HistoryLength ==
    /\ Len(history) = totalQuestions
    /\ Len(trace) = totalQuestions

C2_Witness ==
    /\ totalQuestions = 3
    /\ Len(history) = 3
    /\ \E i \in 1..3 : ~history[i].correct

\* C3: four consecutive correct answers to a difficulty-0 question with a zero
\* correct streak and a domain level below 2 leave the skill state alone three
\* times, raise the question's domain by one on the 4th call and leave the
\* streak at 0; a 5th correct answer does not raise it again
C3_Promotion ==
    \A i \in 1..Len(trace) :
        LET q == trace[i].questionID
            t == TopicOf(q)
        IN  ( /\ Run(i, 4, q, TRUE)
              /\ questionBankByID[q].difficulty = 0
              /\ HasDomain(t)
              /\ trace[i].cBefore = 0
              /\ LevelOf(trace[i].before, t) < 2 )
            => /\ \A j \in i..(i + 2) : trace[j].after = trace[i].before
               /\ trace[i + 3].after =
                      WithLevel(trace[i].before, t, LevelOf(trace[i].before, t) + 1)
               /\ trace[i + 3].cAfter = 0
               /\ Run(i, 5, q, TRUE) => trace[i + 4].after = trace[i + 3].after

\* five correct answers in a row to one difficulty-0 question, the first on a
\* zero streak with the domain below 2
C3_Witness ==
    \E i \in 1..Len(trace) :
        LET q == trace[i].questionID
        IN  /\ Run(i, 5, q, TRUE)
            /\ questionBankByID[q].difficulty = 0
            /\ HasDomain(TopicOf(q))
            /\ trace[i].cBefore = 0
            /\ LevelOf(trace[i].before, TopicOf(q)) < 2

\* C4: four consecutive incorrect answers to a question with a zero incorrect
\* streak leave the skill state alone three times, lower the question's domain
\* by one on the 4th call (a level of 0 stays 0, and a question of no domain
\* changes nothing) and leave the incorrect streak at 0
C4_Demotion ==
    \A i \in 1..Len(trace) :
        LET q  == trace[i].questionID
            t  == TopicOf(q)
            l0 == LevelOf(trace[i].before, t)
        IN  ( /\ Run(i, 4, q, FALSE)
              /\ trace[i].iBefore = 0 )
            => /\ \A j \in i..(i + 2) : trace[j].after = trace[i].before
               /\ trace[i + 3].after =
                      IF HasDomain(t) /\ l0 > 0
                      THEN WithLevel(trace[i].before, t, l0 - 1)
                      ELSE trace[i].before
               /\ trace[i + 3].iAfter = 0

\* four incorrect answers in a row to a question whose domain is at 0
C4_Witness ==
    \E i \in 1..Len(trace) :
        LET q == trace[i].questionID
        IN  /\ Run(i, 4, q, FALSE)
            /\ trace[i].iBefore = 0
            /\ HasDomain(TopicOf(q))
            /\ LevelOf(trace[i].before, TopicOf(q)) = 0
            /\ i > 1

\* C5: getReward(before, after, correct) is 5.0 iff correct and some level of
\* after exceeds the same level of before, 2.5 iff correct and no level
\* increased, and -2.5 iff not correct, for all states in [0,2]^3
Improved(before, after) ==
    \E f \in {"notes", "chords", "scales"} : after[f] > before[f]

EvalStep == Len(history') = Len(history) + 1
StepCorrect == history'[Len(history')].correct

\* C6: a correct answer adds 10 to the score and 1 to correctAnswers, an
\* incorrect one subtracts 5 from the score but not below 0 and leaves
\* correctAnswers unchanged; the score is never negative
C6_ScoreSteps ==
    /\ [](score >= 0)
    /\ [][EvalStep =>
            IF StepCorrect
            THEN score' = score + 10 /\ correctAnswers' = correctAnswers + 1
            ELSE /\ score' = (IF score >= 5 THEN score - 5 ELSE 0)
                 /\ correctAnswers' = correctAnswers]_vars

\* correct, then three incorrect answers: 10, 5, 0 and 0 again
C6_Witness ==
    /\ Len(history) = 4
    /\ history[1].correct
    /\ \A i \in 2..4 : ~history[i].correct
    /\ score = 0
    /\ correctAnswers = 1

\* C7: getAccuracy() is 0 before any answer, otherwise 100 * correctAnswers /
\* totalQuestions to within the rounding of one float product (exactly 75 for
\* 3 correct of 4), and always within [0,100]
C7_Accuracy ==
    LET acc == getAccuracy(correctAnswers, totalQuestions)
        err == acc * totalQuestions - 100 * FScale * correctAnswers
    IN  /\ totalQuestions = 0 => acc = 0
        /\ totalQuestions > 0 => err <= 50 * totalQuestions /\ 0 - err <= 50 * totalQuestions
        /\ (correctAnswers = 3 /\ totalQuestions = 4) => acc = 75 * FScale
        /\ acc >= 0 /\ acc <= 100 * FScale

C7_Witness ==
    /\ correctAnswers = 3
    /\ totalQuestions = 4
    /\ getAccuracy(correctAnswers, totalQuestions) = 75 * FScale

\* C8: with a non-empty question bank getNextAction returns a key of the bank,
\* in the explore and in the exploit branch
C8_ReturnsBankKey ==
    (ret.op = "getNextAction" /\ DOMAIN questionBankByID # {})
        => ret.value \in DOMAIN questionBankByID

\* the exploit branch over a pool of three with stored values: the best is id 2
C8_Witness ==
    /\ ret.op = "getNextAction"
    /\ ~ret.fault
    /\ ~ret.explore
    /\ Len(ret.pool) = 3
    /\ state \in DOMAIN q_table
    /\ q_table[state][1] < 0
    /\ ret.value = 2

\* C9: when the candidate pool is empty and the bank is not, getNextAction
\* returns the lowest id of the bank; for a bank of one entry, that entry's id
C9_EmptyPoolFallback ==
    (ret.op = "getNextAction" /\ DOMAIN questionBankByID # {} /\ ret.pool = << >>)
        => /\ ret.value \in DOMAIN questionBankByID
           /\ \A k \in DOMAIN questionBankByID : ret.value <= k

\* the one-entry bank, its question too hard even with stretch
C9_Witness ==
    /\ ret.op = "getNextAction"
    /\ questionBankByID = BankSingle
    /\ ret.explore
    /\ ret.candidates = << >>
    /\ ret.value = 1

\* C10: with an empty question bank getNextAction completes without reading a
\* bank entry that does not exist, and the engine stays usable
C10_EmptyBankGraceful ==
    (ret.op = "getNextAction" /\ DOMAIN questionBankByID = {})
        => ~ret.fault /\ pc = "ready"

(* ---------------------------------- C11 -------------------------------- *)
\* C11: from an empty Q-table one update of (s, a) with reward r leaves
\* Q[s][a] = 0.1 * r (0.5 for 5.0, 0.25 for 2.5, -0.25 for -2.5) and no other
\* entry, whether the next state is s or another state.
C11_FirstUpdate ==
    (ret.op = "updateQTable" /\ ret.qt = EmptyMap) =>
        /\ DOMAIN q_table = {ret.currentState}
        /\ DOMAIN q_table[ret.currentState] = {ret.questionID}
        /\ lrDen * q_table[ret.currentState][ret.questionID] = ret.reward
        /\ (ret.reward = 5 * FScale =>
              q_table[ret.currentState][ret.questionID] = FScale \div 2)
        /\ (ret.reward = (5 * FScale) \div 2 =>
              q_table[ret.currentState][ret.questionID] = FScale \div 4)
        /\ (ret.reward = 0 - ((5 * FScale) \div 2) =>
              q_table[ret.currentState][ret.questionID] = 0 - (FScale \div 4))

\* the update of an empty table whose next state is the updated state itself
C11_Witness ==
    /\ ret.op = "updateQTable"
    /\ ret.qt = EmptyMap
    /\ ret.nextState = ret.currentState
    /\ ret.reward = 0 - ((5 * FScale) \div 2)
    /\ q_table[ret.currentState][ret.questionID] = 0 - (FScale \div 4)

(* ---------------------------------- C12 -------------------------------- *)
\* C12: every evaluateResponse call leaves the skill state as it was or moves
\* exactly one level by exactly 1, and the level it moves is the domain of the
\* answered question's topic; a question whose topic has no domain never
\* changes the skill state.
C12_OneLevelOfTheTopic ==
    \A i \in 1..Len(trace) :
        LET before == trace[i].before
            after  == trace[i].after
            t      == TopicOf(trace[i].questionID)
        IN  /\ (~HasDomain(t)) => after = before
            /\ HasDomain(t) =>
                  \/ after = before
                  \/ after = WithLevel(before, t, LevelOf(before, t) + 1)
                  \/ after = WithLevel(before, t, LevelOf(before, t) - 1)

\* a topic-103 answer raised chords and nothing else, and a later one of the
\* same session lowered it again
C12_Witness ==
    \E i \in 1..Len(trace), j \in 1..Len(trace) :
        /\ i < j
        /\ TopicOf(trace[i].questionID) = 103
        /\ trace[i].after = [trace[i].before EXCEPT !.chords = @ + 1]
        /\ trace[j].after = [trace[j].before EXCEPT !.chords = @ - 1]

(* ---------------------------------- C13 -------------------------------- *)
\* C13: the engine never mutates its question bank: whatever calls were made,
\* with ids that are in the bank or not, the bank has the keys and the
\* questions it was constructed with.
C13_BankNeverMutated == questionBankByID = ctor.questionBank

(* ---------------------------------- C14 -------------------------------- *)
\* C14: getQuestion(id) for an id that is not a key of the bank returns a
\* default Question, raises no error and leaves the bank as it was; for an id
\* that is a key it returns the bank's entry.
C14_GetQuestion ==
    [][ret'.op = "getQuestion" =>
          /\ questionBankByID' = questionBankByID
          /\ pc' = "ready"
          /\ (ret'.questionID \notin DOMAIN questionBankByID
                 => ret'.value = Q(0, 0, ""))
          /\ (ret'.questionID \in DOMAIN questionBankByID
                 => ret'.value = questionBankByID[ret'.questionID])]_vars

\* a lookup of an id that no entry of a non-empty bank has
C14_Witness ==
    /\ ret.op = "getQuestion"
    /\ questionBankByID # EmptyMap
    /\ ret.questionID \notin DOMAIN questionBankByID
    /\ ret.value = Q(0, 0, "")

(* ---------------------------------- C15 -------------------------------- *)
\* C15: getScore, getTotalQuestions, getCorrectAnswers, getAccuracy,
\* getHistory, getQTable, getQValue and getCurrentState change no part of the
\* engine state, and getQValue(s, a) of a pair that has no entry returns 0
\* without adding the entry.
AccessorOps == {"getScore", "getTotalQuestions", "getCorrectAnswers", "getAccuracy",
                "getHistory", "getQTable", "getQValue", "getCurrentState"}

C15_AccessorsPure ==
    [][ret'.op \in AccessorOps =>
          /\ UNCHANGED engine
          /\ (ret'.op = "getQValue" =>
                 IF ret'.s \in DOMAIN q_table /\ ret'.questionID \in DOMAIN q_table[ret'.s]
                 THEN ret'.value = q_table[ret'.s][ret'.questionID]
                 ELSE ret'.value = 0)]_vars

\* getQValue of an absent id in a state whose row exists, after an answer
C15_Witness ==
    /\ ret.op = "getQValue"
    /\ totalQuestions > 0
    /\ ret.s \in DOMAIN q_table
    /\ ret.questionID \notin DOMAIN q_table[ret.s]
    /\ ret.value = 0

(* ---------------------------------- C16 -------------------------------- *)
\* C16: before any answer is evaluated on a constructed engine, getQTable()
\* and getCurrentState() return the Q-table and the skill state the
\* constructor was given, score, correctAnswers and totalQuestions are 0, and
\* the history, the asked-set and both streak-counter maps are empty.
C16_FreshEngine ==
    trace = << >> =>
        /\ q_table = ctor.qTable
        /\ state = ctor.initialState
        /\ score = 0 /\ correctAnswers = 0 /\ totalQuestions = 0
        /\ history = << >>
        /\ askedQuestionsThisSession = {}
        /\ correctCounts = EmptyMap /\ incorrectCounts = EmptyMap
        /\ (ret.op = "getQTable" => ret.value = ctor.qTable)
        /\ (ret.op = "getCurrentState" => ret.value = ctor.initialState)
        /\ (ret.op \in {"getScore", "getCorrectAnswers", "getTotalQuestions"}
              => ret.value = 0)
        /\ (ret.op = "getHistory" => ret.value = << >>)

\* getQTable() on a fresh engine that was given a stored table
C16_Witness ==
    /\ trace = << >>
    /\ ret.op = "getQTable"
    /\ ctor.qTable # EmptyMap
    /\ ctor.initialState # St(0, 0, 0)
    /\ ret.value = ctor.qTable

(* ---------------------------------- C17 -------------------------------- *)
\* C17: the Q-table grows monotonically: every (state, questionID) entry the
\* table has before a getNextAction or evaluateResponse call it still has
\* after the call.
C17_TableGrows ==
    [][\A s \in DOMAIN q_table :
          /\ s \in DOMAIN q_table'
          /\ DOMAIN q_table[s] \subseteq DOMAIN q_table'[s]]_vars

\* an exploit draw added a 0 entry for a question that was never answered,
\* next to the entry the first answer of the session created
C17_Witness ==
    /\ ret.op = "getNextAction" /\ ~ret.fault /\ ~ret.explore
    /\ Len(trace) >= 1
    /\ trace[1].before \in DOMAIN q_table
    /\ trace[1].questionID \in DOMAIN q_table[trace[1].before]
    /\ \E qid \in Range(ret.pool) :
          /\ \A i \in 1..Len(trace) : trace[i].questionID # qid
          /\ ctor.qTable = EmptyMap
          /\ q_table[state][qid] = 0

(* ---------------------------------- C18 -------------------------------- *)
\* the questions answered so far in the session
Answered == {trace[i].questionID : i \in 1..Len(trace)}

\* C18: getNextAction does not return an id of the asked-set while the pool
\* of the draw has an id outside it, and it returns a question that was
\* already answered only when every candidate of the draw's pool has been
\* asked.
C18_NoAvoidableRepeat ==
    (ret.op = "getNextAction" /\ ~ret.fault) =>
        /\ (Range(ret.candidates) \ ret.asked # {} => ret.value \notin ret.asked)
        /\ (ret.value \in Answered => Range(ret.candidates) \subseteq Answered)

(* ---------------------------------- C19 -------------------------------- *)
\* C19: every session that reaches NUM_QUIZ_QUESTIONS answers ends in
\* handleQuizOver, which saves the engine's Q-table and skill state and emits
\* quizFinished exactly once, in the first session of the process and in
\* every later one.
C19_SessionEndSavesOnce ==
    /\ (widget.at = "dialog" /\ widget.questionsAnswered = NUM_QUIZ_QUESTIONS)
          => (m_data.table = SavedQTable(q_table) /\ m_data.userState = state)
    /\ (widget.quiz /\ widget.at = "idle"
          /\ widget.questionsAnswered >= NUM_QUIZ_QUESTIONS)
          => (log.saves = 1 /\ log.finished = 1)

(* ---------------------------------- C20 -------------------------------- *)
\* C20: the screen calls getNextAction and evaluateResponse strictly
\* alternately on its engine, getNextAction first, and passes every
\* evaluateResponse the id the getNextAction call before it returned, whatever
\* keys are pressed and released and whenever the chord timer fires.
C20_StrictAlternation ==
    [][/\ (Len(trace') = Len(trace) + 1) =>
             /\ ret.op = "getNextAction"
             /\ trace'[Len(trace')].questionID = ret.value
       /\ (widget.at \in {"started", "answered"} /\ widget'.at = "idle") =>
             ret.op \in {"none", "evaluateResponse"}]_vars

(* ---------------------------------- C21 -------------------------------- *)
\* the (state, questionID) pairs a Q-table has an entry for
Entries(qTable) == UNION {{<< s, a >> : a \in DOMAIN qTable[s]} : s \in DOMAIN qTable}

\* C21: the persisted key scheme round-trips: toKey(s) is "[notes,chords,scales]"
\* and fromKey(toKey(s)) = s for every state with levels in 0..2, and the
\* Q-table getQTable reads after a saveQTable has exactly the (state,
\* questionID) entries of the saved one, ids being written as "[id]".
C21_KeyRoundTrip ==
    [][/\ (ret'.op = "toKey" =>
              ret'.value = << "[", DigitChars[ret'.s.notes + 1], ",",
                              DigitChars[ret'.s.chords + 1], ",",
                              DigitChars[ret'.s.scales + 1], "]" >>)
       /\ ((ret.op = "toKey" /\ ret'.op = "fromKey" /\ ret'.key = ret.value) =>
              ret'.value = ret.s)
       /\ (ret'.op = "saveQTable" =>
              \A s \in DOMAIN ret'.qTable :
                  DOMAIN m_data'.table[toKey(s)] =
                      {<< "[" >> \o IntText(a) \o << "]" >> : a \in DOMAIN ret'.qTable[s]})
       /\ ((ret.op = "saveQTable" /\ ret'.op = "loadQTable") =>
              Entries(ret'.value) = Entries(ret.qTable))]_vars

\* a table of two states with ids of one, two and three digits was saved and
\* read back entry for entry
C21_Witness ==
    /\ ret.op = "loadQTable"
    /\ Cardinality(DOMAIN ret.value) = 2
    /\ \E s \in DOMAIN ret.value : {1, 10, 105} \subseteq DOMAIN ret.value[s]
    /\ m_data.table = SavedQTable(ret.value)
    /\ << "[", "2", ",", "1", ",", "0", "]" >> \in DOMAIN m_data.table

(* ---------------------------------- C22 -------------------------------- *)
\* the question the evaluateResponse step answered
StepQuestion == history'[Len(history')].questionID

\* C22: evaluateResponse(q, c) changes the value of at most one Q-table
\* entry, the entry (stateBefore, q) of the skill state at entry to the call;
\* every other entry keeps its value and no other entry is created, none for
\* the state after the skill update either.
C22_OneEntryWritten ==
    [][EvalStep =>
          /\ Entries(q_table') = Entries(q_table) \cup {<< state, StepQuestion >>}
          /\ DOMAIN q_table' = DOMAIN q_table \cup {state}
          /\ \A e \in Entries(q_table) \ {<< state, StepQuestion >>} :
                 q_table'[e[1]][e[2]] = q_table[e[1]][e[2]]]_vars

\* the last answer promoted a domain into a state the table has no row for,
\* while the table has entries of an earlier answer
C22_Witness ==
    /\ Len(trace) >= 2
    /\ trace[Len(trace)].after # trace[Len(trace)].before
    /\ trace[Len(trace)].after = state
    /\ state \notin DOMAIN q_table
    /\ Cardinality(Entries(q_table)) >= 2

(* ---------------------------------- C23 -------------------------------- *)
\* the largest of 0 and the values recorded for s
MaxRecorded(qt, s) ==
    LET vals == {0} \cup (IF s \in DOMAIN qt THEN {qt[s][a] : a \in DOMAIN qt[s]} ELSE {})
    IN  CHOOSE m \in vals : \A v \in vals : v <= m

\* 5.0, 2.5 and -2.5 by the reward rule
RewardRule(before, after, correct) ==
    IF ~correct THEN 0 - (5 * FScale) \div 2
    ELSE IF Improved(before, after) THEN 5 * FScale
    ELSE (5 * FScale) \div 2

\* C23: evaluateResponse sets Q[stateBefore][q] to
\* old + 0.1 * (reward + 0.9 * maxQ(stateAfter) - old), old being the previous
\* value (0 if absent), stateBefore and stateAfter the skill state before and
\* after the call's skill update and reward = getReward(stateBefore,
\* stateAfter, correct); to within the rounding of the two float products.
C23_QLearningStep ==
    [][EvalStep =>
          LET old    == Get(Get(q_table, state, EmptyMap), StepQuestion, 0)
              new    == q_table'[state][StepQuestion]
              reward == RewardRule(state, state', StepCorrect)
              err    == 100 * (new - old)
                          - (10 * reward + 9 * MaxRecorded(q_table, state') - 10 * old)
          IN  err <= 55 /\ 0 - err <= 55]_vars

\* a correct answer to a question answered before in the same state, with a
\* positive value recorded for another question of that state
C23_Witness ==
    \E i \in 2..Len(trace) :
        /\ i = Len(trace)
        /\ trace[i].correct
        /\ trace[i].after = trace[i].before
        /\ \E j \in 1..(i - 1) :
              /\ trace[j].before = trace[i].before
              /\ trace[j].questionID = trace[i].questionID
              /\ trace[j].correct
        /\ \E a \in DOMAIN q_table[trace[i].before] :
              /\ a # trace[i].questionID
              /\ q_table[trace[i].before][a] > 0

C25_HistoryAppendOnly ==
    [][/\ Len(history') >= Len(history)
       /\ SubSeq(history', 1, Len(history)) = history
       /\ (Len(trace') = Len(trace) + 1 =>
              /\ Len(history') = Len(history) + 1
              /\ history'[Len(history')].state = state
              /\ history'[Len(history')].questionID = ret'.questionID
              /\ history'[Len(history')].correct = ret'.correct)]_vars

\* a promoting and a later demoting answer, each recorded with the state it
\* was given in, and an entry appended after both
C25_Witness ==
    \E i \in 1..Len(trace), j \in 1..Len(trace) :
        /\ i < j /\ j < Len(history)
        /\ trace[i].correct /\ trace[i].after # trace[i].before
        /\ ~trace[j].correct /\ trace[j].after # trace[j].before
        /\ history[i].state = trace[i].before
        /\ history[j].state = trace[j].before
        /\ history[j].state # history[i].state

(* ---------------------------------- C26 -------------------------------- *)
\* C26: each evaluateResponse call emits highlightKeys exactly once, with the
\* call's correct flag, after the history append and the score and counter
\* update and before the skill state, the Q-table and the asked-set are
\* modified: a listener reading the engine during the notification sees the
\* new history, score and counters and the old skill state, Q-table and
\* asked-set.
C26_HighlightKeysOnce ==
    [][Len(trace') = Len(trace) + 1 =>
          /\ Len(ret'.signals) = 1
          /\ ret'.signals[1].isCorrect = ret'.correct
          /\ ret'.signals[1].seen.history = history'
          /\ Len(ret'.signals[1].seen.history) = Len(history) + 1
          /\ ret'.signals[1].seen.score = score'
          /\ ret'.signals[1].seen.correctAnswers = correctAnswers'
          /\ ret'.signals[1].seen.totalQuestions = totalQuestions'
          /\ ret'.signals[1].seen.state = state
          /\ ret'.signals[1].seen.q_table = q_table
          /\ ret'.signals[1].seen.askedQuestionsThisSession = askedQuestionsThisSession]_vars

\* the signal of a correct answer that promoted a domain: the listener saw
\* the raised score with the skill state, table and asked-set of before
C26_Witness ==
    /\ ret.op = "evaluateResponse"
    /\ ret.correct
    /\ Len(ret.signals) = 1
    /\ ret.signals[1].seen.score = score /\ score >= 20
    /\ ret.signals[1].seen.state # state
    /\ ret.signals[1].seen.q_table # q_table
    /\ ret.questionID \notin ret.signals[1].seen.askedQuestionsThisSession
    /\ ret.questionID \in askedQuestionsThisSession

(* ---------------------------------- C27 -------------------------------- *)
\* the value the table records for question a in the current state, 0 if none
QValueNow(a) == QValueFound(q_table, state, a)

FittingIds(bank, s, k) ==
    {qid \in DOMAIN bank :
        /\ HasDomain(bank[qid].topicID)
        /\ bank[qid].difficulty <= LevelOf(s, bank[qid].topicID) + k}

C30_EpsilonTiers ==
    (ret.op = "getNextAction" /\ "epsilon" \in DOMAIN ret) =>
        LET sum == state.notes + state.chords + state.scales
        IN  /\ (sum \div 3 = 0 => ret.epsilon = 9)
            /\ (sum \div 3 = 1 => ret.epsilon = 7)
            /\ (sum \div 3 \notin {0, 1} => ret.epsilon = 5)
            /\ (ret.epsilon = 5 <=> state = St(2, 2, 2))
            /\ (ret.epsilon = 9 <=> sum <= 2)

\* a draw in (0,1,1), whose levels sum to 2, and so still at 0.9
C30_Witness ==
    /\ ret.op = "getNextAction" /\ ~ret.fault
    /\ state = St(0, 1, 1)
    /\ ret.epsilon = 9

(* ---------------------------------- C31 -------------------------------- *)
\* C31: in the explore branch every id of the filtered pool is a possible
\* return value of getNextAction (some outcome of the random draws returns
\* it), whatever topics the pool contains, topics 103 and 105 and above
\* included, and the returned id always belongs to the filtered pool.
C31_EveryPoolIdPossible ==
    (ret.op = "getNextAction" /\ ~ret.fault /\ ret.explore /\ ret.pool # << >>) =>
        /\ ret.value \in Range(ret.pool)
        /\ ret.picks = Range(ret.pool)

(* ---------------------------------- C32 -------------------------------- *)
\* the asked-set as the slots of the highlightKeys signal saw it, i.e. as it
\* was when the evaluateResponse call began
AskedBeforeAnswer == ret.signals[1].seen.askedQuestionsThisSession

\* C32: getNextAction empties the asked-set exactly when every candidate of the
\* draw's pool is already in the asked-set (or there is no candidate) and
\* otherwise leaves it unchanged; evaluateResponse(q, c) adds exactly q to the
\* asked-set and removes nothing.
C32_AskedSetEffects ==
    /\ (ret.op = "getNextAction" /\ "asked" \in DOMAIN ret) =>
          IF Range(ret.candidates) \subseteq ret.asked
          THEN askedQuestionsThisSession = {}
          ELSE askedQuestionsThisSession = ret.asked
    /\ ret.op = "evaluateResponse" =>
          askedQuestionsThisSession = AskedBeforeAnswer \cup {ret.questionID}

\* the first answer put its id in the asked-set, a later draw whose
\* candidates were all asked emptied the set, and the following answer to
\* another question added its own id only
C32_Witness ==
    /\ ret.op = "evaluateResponse"
    /\ Len(trace) >= 2
    /\ trace[1].questionID # ret.questionID
    /\ AskedBeforeAnswer = {}
    /\ askedQuestionsThisSession = {ret.questionID}

(* ---------------------------------- C33 -------------------------------- *)
\* C33: a correct answer adds 1, 2 or 3 to the question's correct streak for
\* difficulty 0, 1 or 2 (the streak returns to 0 when the sum reaches the
\* threshold), so that from a zero streak a question of difficulty 1 or 2
\* promotes its domain, if below 2, on the 2nd consecutive correct answer; an
\* incorrect answer adds exactly 1 to the incorrect streak whatever the
\* difficulty.
C33_WeightedStreaks ==
    \A i \in 1..Len(trace) :
        LET q == trace[i].questionID
            t == TopicOf(q)
            difficulty == questionBankByID[q].difficulty
        IN  /\ (trace[i].correct /\ difficulty \in 0..2) =>
                   IF trace[i].cBefore + difficulty + 1 >= correctThreshold
                   THEN trace[i].cAfter = 0
                   ELSE trace[i].cAfter = trace[i].cBefore + difficulty + 1
            /\ ~trace[i].correct =>
                   IF trace[i].iBefore + 1 >= incorrectThreshold
                   THEN trace[i].iAfter = 0
                   ELSE trace[i].iAfter = trace[i].iBefore + 1
            /\ ( /\ Run(i, 2, q, TRUE)
                 /\ difficulty \in 1..2
                 /\ trace[i].cBefore = 0
                 /\ HasDomain(t)
                 /\ LevelOf(trace[i].before, t) < 2 )
               => /\ trace[i].after = trace[i].before
                  /\ trace[i + 1].after =
                         WithLevel(trace[i].before, t, LevelOf(trace[i].before, t) + 1)

\* a question of difficulty 1 or 2 was promoted by its 2nd correct answer, and
\* an incorrect answer to a question of difficulty above 0 was counted once
C33_Witness ==
    /\ \E d \in 1..2 : \E i \in 1..Len(trace) :
          LET q == trace[i].questionID
          IN  /\ Run(i, 2, q, TRUE)
              /\ questionBankByID[q].difficulty = d
              /\ trace[i].cBefore = 0
              /\ trace[i].cAfter = d + 1
              /\ HasDomain(TopicOf(q))
              /\ LevelOf(trace[i].before, TopicOf(q)) < 2
              /\ trace[i + 1].after # trace[i].before
    /\ \E i \in 1..Len(trace) :
          /\ ~trace[i].correct
          /\ questionBankByID[trace[i].questionID].difficulty > 0
          /\ trace[i].iAfter = trace[i].iBefore + 1

(* ---------------------------------- C34 -------------------------------- *)
\* the ids that have a streak counter
Counted(cc, ic) == DOMAIN cc \cup DOMAIN ic

\* C34: after every evaluateResponse call the correct streak and the incorrect
\* streak of every question id are both in 0..3 and at most one of them is
\* non-zero; the call resets the opposite streak of the answered id to 0 and
\* leaves the counters of all other ids unchanged.
C34_Streaks ==
    [][ EvalStep =>
          LET q == history'[Len(history')].questionID
          IN  /\ \A id \in Counted(correctCounts', incorrectCounts') :
                    /\ Get(correctCounts', id, 0) \in 0..3
                    /\ Get(incorrectCounts', id, 0) \in 0..3
                    /\ Get(correctCounts', id, 0) = 0 \/ Get(incorrectCounts', id, 0) = 0
              /\ IF StepCorrect THEN Get(incorrectCounts', q, 0) = 0
                                ELSE Get(correctCounts', q, 0) = 0
              /\ \A id \in Counted(correctCounts, incorrectCounts)
                              \cup Counted(correctCounts', incorrectCounts') :
                    id # q => /\ Get(correctCounts', id, 0) = Get(correctCounts, id, 0)
                              /\ Get(incorrectCounts', id, 0) = Get(incorrectCounts, id, 0)
    ]_vars

\* an incorrect answer came after a correct streak of 3 on the same question
\* and reset it, while the other question kept its incorrect streak of 2
C34_Witness ==
    /\ Len(trace) >= 2
    /\ LET last == trace[Len(trace)]
       IN  /\ ~last.correct
           /\ last.cBefore = 3
           /\ last.cAfter = 0
           /\ last.iAfter = 1
           /\ \E id \in DOMAIN incorrectCounts :
                 id # last.questionID /\ incorrectCounts[id] = 2

C36_DrawKeepsTable ==
    [][ /\ ~EvalStep => q_table' = q_table
        /\ EvalStep =>
              Entries(q_table') \ Entries(q_table)
                  \subseteq {<< state, history'[Len(history')].questionID >>}
    ]_vars

UnansweredStretch ==
    Range(getActionsForStateLevel(questionBankByID, state, TRUE)) \ Answered

\* C38: within one engine instance getNextAction does not return a question
\* that was already answered in the session while the bank still holds a
\* question that qualifies for the current skill state with stretch allowed
\* and has not been answered in the session.
C38_NoRepeatWhileUnanswered ==
    (ret.op = "getNextAction" /\ ~ret.fault /\ ret.value \in Answered)
        => UnansweredStretch = {}

(* ---------------------------------- C39 -------------------------------- *)
\* the values a Q-table holds
Values(qTable) == {qTable[e[1]][e[2]] : e \in Entries(qTable)}
InQRange(v) == 0 - 5 * FScale <= 2 * v /\ v <= 50 * FScale

\* C39: if every value of the Q-table given to the constructor lies in
\* [-2.5, 50], the empty table included, then after any sequence of
\* evaluateResponse calls every value of the Q-table still lies in [-2.5, 50].
C39_QValuesBounded ==
    (\A v \in Values(ctor.qTable) : InQRange(v))
        => \A v \in Values(q_table) : InQRange(v)

\* an entry that started at 50 was updated for the first time by a promoting
\* answer, whose successor state also holds 50, and is still 50
C39_Witness ==
    /\ Len(trace) >= 2
    /\ ctor.qTable = HighTable
    /\ LET last == trace[Len(trace)]
       IN  /\ last.reward = 5 * FScale
           /\ last.after # last.before
           /\ maxQValue(q_table, last.after) = 50 * FScale
           /\ q_table[last.before][last.questionID] = 50 * FScale

(* ---------------------------------- C40 -------------------------------- *)
\* the lexicographic order by notes, then chords, then scales
LexLess(a, b) ==
    \/ a.notes < b.notes
    \/ a.notes = b.notes /\ a.chords < b.chords
    \/ a.notes = b.notes /\ a.chords = b.chords /\ a.scales < b.scales

\* C40: State::operator< is a strict total order on skill states, the
\* lexicographic order by notes, then chords, then scales: it is irreflexive
\* and transitive, and for any two states a, b exactly one of a < b, b < a and
\* "a and b have equal fields" holds.
C40_StrictTotalOrder ==
    ret.op = "operator<" =>
        /\ ret.ab <=> LexLess(ret.a, ret.b)
        /\ ~ret.aa
        /\ (ret.ab /\ ret.bc) => ret.ac
        /\ ret.ab \/ ret.ba \/ ret.a = ret.b
        /\ ~(ret.ab /\ ret.ba)
        /\ ret.a = ret.b => ~ret.ab /\ ~ret.ba

\* a chain a < b < c decided by three different fields: notes are equal and
\* chords decide for a and b, notes decide for b and c although scales run
\* the other way
C40_Witness ==
    /\ ret.op = "operator<"
    /\ ret.a.notes = ret.b.notes /\ ret.a.chords < ret.b.chords
    /\ ret.a.scales > ret.b.scales
    /\ ret.b.notes < ret.c.notes /\ ret.b.scales > ret.c.scales
    /\ ret.ab /\ ret.bc /\ ret.ac /\ ~ret.ba

====
